---- MODULE Spec2Model ----
(***************************************************************************)
(* Verification model of sinarck/hand-wave.                                *)
(*                                                                         *)
(*   Live loop (src/streaming.py): the capture/detect producer thread, the *)
(*   websocket server thread with its broadcaster task and the per-client  *)
(*   handlers, sharing latest_translation and processing_active.           *)
(*                                                                         *)
(*   Inference service (src/apps/inference/src/main.py): lifespan and the  *)
(*   predict handler over ASLClassifier (asl_classifier.py).               *)
(*                                                                         *)
(*   Sequence decoder (src/apps/inference/src/tflite_model.py): the        *)
(*   vocabulary built by TFLiteModel.__init__ and decode_output.           *)
(*                                                                         *)
(*   The classifier's ranker and movement encoder (asl_classifier.py),     *)
(*   also called alone on any input.                                       *)
(*                                                                         *)
(* The parts share no state; each has its own next-state relation and      *)
(* specification, the variables of the other parts staying as they are     *)
(* initially.                                                              *)
(*                                                                         *)
(* Time is counted in quarter seconds: detection_cooldown = 0.5 s = 2.     *)
(*                                                                         *)
(* Besides the program's state the model keeps history variables, which    *)
(* the program never reads. A run records one group of them, chosen by     *)
(* `observed`: the detector's (outcome, lastAttempt, lastSuccess) or the   *)
(* subscribers' (writes, join, message.id, message.ver).                   *)
(***************************************************************************)
EXTENDS Integers, Sequences, FiniteSets, TLC

(* ------------------------------ bounds --------------------------------- *)
\* wall-clock horizon of a run, in quarter seconds
MaxTime == 6
\* number of websocket connections a run may open
NumClients == 2
\* classes of a classifier's output vector
NumClasses == 4
\* largest raw score of a class
MaxScore == 1
\* steps of a decoder output
MaxSteps == 3
\* frames of a movement sequence (the models take 21)
NumFrames == 2
\* landmarks of a frame (the models take 21)
NumLandmarks == 2
\* largest raw coordinate of a landmark
MaxCoord == 1
\* width and height of the image of a movement request
ImageWidth == 2
ImageHeight == 3

(* ------------------------- program constants --------------------------- *)
\* streaming.py:18  detection_cooldown = 0.5 (seconds), here in quarter seconds
detection_cooldown == 2

\* time.time() at program start: far more than one cooldown after
\* last_detection_time = 0 (streaming.py:17)
StartTime == detection_cooldown

None == "None"
\* the formatted detections "sign (0.xx)" detect_asl can return
Texts == {"A (0.90)", "B (0.80)"}
Clients == 1..NumClients

\* what the classifier call of one frame can do (streaming.py:109-146)
ClassifierResults == {"error", "none"} \cup Texts

NoMsg == [text |-> None, id |-> 0, ver |-> 0]
NoJoin == [ver |-> 0, id |-> 0]

VARIABLES
    (* ---- streaming.py globals ---- *)
    latest_translation,     \* None or a text
    processing_active,      \* BOOLEAN
    connected_clients,      \* set of websockets
    last_detection_time,    \* time of the last passage of the cooldown gate
    model,                  \* "YOLO" or None (load failed, streaming.py:22-27)
    (* ---- control state ---- *)
    now,                    \* time.time() as the capture loop read it last
    pcMain,                 \* main(): "loop", "done" (after finally), "exited"
    pcS,                    \* start_server(): "init", "serving", "killed"
    pcB,                    \* broadcast_translations(): "notstarted", "sleep",
                            \*   "if", "build", "gather", "done", "killed"
    previous_translation,   \* broadcaster local
    message,                \* the message built last: text, ordinal, slot version
    send,                   \* per client, its send of the last gather:
                            \*   "idle" (none), "pending", "ok", "failed"
    conn,                   \* per client: "new", "open", "closed"
    (* ---- observation (history) ---- *)
    observed,               \* the group recorded: "detector", "subscribers"
    outcome,                \* what detect_asl did on the last frame
    lastAttempt,            \* time of the last classifier invocation
    lastSuccess,            \* time of the last invocation that gave a result
    writes,                 \* number of writes to latest_translation so far
    join,                   \* per open connection: writes and message.id
                            \*   as they were at its registration
    raised,                 \* an exception that escaped a server-side task
    (* ---- main.py ---- *)
    model_instance,         \* None or "ASLClassifier"
    svc,                    \* lifespan: "starting", "up", "down"
    startup,                \* what lifespan found at startup
    response,               \* the answer to the predict request, with what
                            \* the handler had in hand when it answered
    request,                \* the mode of the predict request, None if none
    (* ---- tflite_model.py ---- *)
    char_map,               \* the character map as loaded, in code order
    char_to_num,            \* self.char_to_num
    num_to_char,            \* self.num_to_char
    pcD,                    \* "new", "idle", "loop", "done"
    output,                 \* decode_output's argument
    token_ids,              \* np.argmax(output, axis=-1)
    step,                   \* position of the for loop in token_ids
    chars,                  \* the list chars
    text,                   \* the decoded text, None until returned
    confidences,            \* np.max(probs, axis=-1), one fraction per step
    confidence,             \* the confidence returned, None until returned
    (* ---- asl_classifier.py: calls of its functions ---- *)
    rank_probs,             \* _max_n_results: the score vector
    rank_n,                 \* _max_n_results: the number of results asked for
    rank_out,               \* _max_n_results: what it returned, NoRanking
                            \* before
    m_sequence,             \* _preprocess_hand_movement: the frames given
    landmarks_seq           \* _preprocess_hand_movement: the list returned,
                            \* empty before

liveVars == <<latest_translation, processing_active, connected_clients,
              last_detection_time, model, now, pcMain, pcS, pcB,
              previous_translation, message, send, conn, outcome,
              lastAttempt, lastSuccess, writes, join, raised, observed>>

svcVars == <<model_instance, svc, startup, response, request>>

decVars == <<char_map, char_to_num, num_to_char, pcD, output, token_ids, step, chars,
             text, confidences, confidence>>

pureVars == <<rank_probs, rank_n, rank_out, m_sequence, landmarks_seq>>

vars == <<liveVars, svcVars, decVars, pureVars>>

(* --------------------------- initial state ----------------------------- *)
InitProgram ==
    /\ latest_translation = None
    /\ processing_active = TRUE
    /\ connected_clients = {}
    /\ last_detection_time = 0
    /\ model \in {"YOLO", None}
    /\ now = StartTime
    /\ pcMain = "loop"
    /\ pcS = "init"
    /\ pcB = "notstarted"
    /\ previous_translation = None
    /\ message = NoMsg
    /\ send = [c \in Clients |-> "idle"]
    /\ conn = [c \in Clients |-> "new"]
    /\ outcome = "nothing"
    /\ lastAttempt = 0
    /\ lastSuccess = 0
    /\ writes = 0
    /\ join = [c \in Clients |-> NoJoin]
    /\ raised = None

InitLive == InitProgram /\ observed = "subscribers"

\* no request answered yet
NoResponse ==
    [status |-> 0, detail |-> "", text |-> "", confidence |-> 0,
     top_predictions |-> <<>>, loaded |-> FALSE, called |-> FALSE,
     indices |-> <<>>, probs |-> <<>>, raw |-> <<>>]

InitService ==
    /\ model_instance = None
    /\ svc = "starting"
    /\ startup = "nothing"
    /\ response = NoResponse
    /\ request = None

InitDecode ==
    /\ char_map = <<>>
    /\ char_to_num = <<>>
    /\ num_to_char = <<>>
    /\ pcD = "new"
    /\ output = <<>>
    /\ token_ids = <<>>
    /\ step = 0
    /\ chars = <<>>
    /\ text = None
    /\ confidences = <<>>
    /\ confidence = None

\* _max_n_results has not returned
NoRanking == [indices |-> <<>>, probs |-> <<>>]

\* no function of the classifier is being called
InitPure ==
    /\ rank_probs = <<>>
    /\ rank_n = 0
    /\ rank_out = NoRanking
    /\ m_sequence = <<>>
    /\ landmarks_seq = <<>>

Init == InitLive /\ InitService /\ InitDecode /\ InitPure

InitDetect ==
    /\ InitProgram /\ observed = "detector"
    /\ InitService /\ InitDecode /\ InitPure

\* a history value of the detector's, resp. the subscribers', group
Detector(new, old) == IF observed = "detector" THEN new ELSE old
Subscriber(new, old) == IF observed = "subscribers" THEN new ELSE old

(* ----------------------- producer: main thread ------------------------- *)
\* the gate with <= for <: a frame exactly one cooldown later is skipped
CooldownPassedStrict(current_time) ==
    ~(current_time - last_detection_time <= detection_cooldown)

\* streaming.py:104  the cooldown gate lets the frame through
CooldownPassed(current_time) ==
    ~(current_time - last_detection_time < detection_cooldown)

\* detect_asl with last_detection_time assigned after the classifier call,
\* inside the try: a call that raises starts no cooldown window
detect_asl_StampAfterCall(current_time, r, translation) ==
    IF model = None
    THEN /\ translation = None
         /\ outcome' = Detector("nomodel", outcome)
         /\ UNCHANGED <<last_detection_time, lastAttempt, lastSuccess>>
    ELSE IF ~CooldownPassed(current_time)
    THEN /\ translation = None
         /\ outcome' = Detector("skip", outcome)
         /\ UNCHANGED <<last_detection_time, lastAttempt, lastSuccess>>
    ELSE /\ last_detection_time' =
              (IF r = "error" THEN last_detection_time ELSE current_time)
         /\ translation = (IF r \in Texts THEN r ELSE None)
         /\ lastAttempt' = Detector(current_time, lastAttempt)
         /\ outcome' = Detector(IF r \in Texts THEN "text" ELSE r, outcome)
         /\ lastSuccess' =
              Detector(IF r \in Texts THEN current_time ELSE lastSuccess,
                       lastSuccess)

\* streaming.py:97-146  detect_asl(frame) with the classifier doing r;
\* translation is what it returns
detect_asl(current_time, r, translation) ==
    IF model = None
    THEN /\ translation = None
         /\ outcome' = Detector("nomodel", outcome)
         /\ UNCHANGED <<last_detection_time, lastAttempt, lastSuccess>>
    ELSE IF ~CooldownPassed(current_time)
    THEN /\ translation = None
         /\ outcome' = Detector("skip", outcome)
         /\ UNCHANGED <<last_detection_time, lastAttempt, lastSuccess>>
    ELSE /\ last_detection_time' = current_time
         /\ translation = (IF r \in Texts THEN r ELSE None)
         /\ lastAttempt' = Detector(current_time, lastAttempt)
         /\ outcome' = Detector(IF r \in Texts THEN "text" ELSE r, outcome)
         /\ lastSuccess' =
              Detector(IF r \in Texts THEN current_time ELSE lastSuccess,
                       lastSuccess)

\* streaming.py:175-185  one iteration of the capture loop, the clock
\* reading current_time when detect_asl asks: detect, then overwrite the slot
\* when a translation came back
MainFrame ==
    /\ pcMain = "loop"
    /\ processing_active
    /\ \E current_time \in now..MaxTime, r \in ClassifierResults,
          translation \in Texts \cup {None} :
         /\ now' = current_time
         /\ detect_asl(current_time, r, translation)
         /\ IF translation # None
            THEN /\ latest_translation' = translation
                 /\ writes' = Subscriber(writes + 1, writes)
            ELSE UNCHANGED <<latest_translation, writes>>
    /\ UNCHANGED <<processing_active, connected_clients, model, pcMain, pcS,
                   pcB, previous_translation, message, send, conn, join,
                   raised, observed, svcVars, decVars, pureVars>>

\* streaming.py:252-266  'q', KeyboardInterrupt or an exception of the loop
\* body: the finally block clears processing_active
MainQuit ==
    /\ pcMain = "loop"
    /\ processing_active' = FALSE
    /\ pcMain' = "done"
    /\ UNCHANGED <<latest_translation, connected_clients, last_detection_time,
                   model, now, pcS, pcB, previous_translation, message, send,
                   conn, outcome, lastAttempt, lastSuccess, writes, join,
                   raised, observed, svcVars, decVars, pureVars>>

\* streaming.py:158, 269-270  main() returns and the interpreter exits: the
\* daemon server thread is stopped wherever it is
ProcessExit ==
    /\ pcMain = "done"
    /\ pcMain' = "exited"
    /\ pcS' = (IF pcS = "init" THEN pcS ELSE "killed")
    /\ pcB' = (IF pcB = "notstarted" THEN pcB ELSE "killed")
    /\ UNCHANGED <<latest_translation, processing_active, connected_clients,
                   last_detection_time, model, now, previous_translation,
                   message, send, conn, outcome, lastAttempt, lastSuccess,
                   writes, join, raised, observed, svcVars, decVars, pureVars>>

(* ---------------------- server thread: event loop ---------------------- *)
\* streaming.py:75-80  start_server: serve, create the broadcast task, then
\* await a future nobody resolves
start_server ==
    /\ pcS = "init"
    /\ pcMain # "exited"
    /\ pcS' = "serving"
    /\ pcB' = "sleep"
    /\ UNCHANGED <<latest_translation, processing_active, connected_clients,
                   last_detection_time, model, now, pcMain,
                   previous_translation, message, send, conn, outcome,
                   lastAttempt, lastSuccess, writes, join, raised, observed,
                   svcVars, decVars, pureVars>>

\* the broadcaster task is suspended at an await (streaming.py:65, 71) or has
\* returned, so the event loop can run a client handler
LoopFree == pcS = "serving" /\ pcB \in {"sleep", "gather", "done"}

\* streaming.py:39-44  handle_client up to wait_closed(); the websockets are
\* numbered in the order in which they connect
HandleClientAdd(c) ==
    /\ LoopFree
    /\ conn[c] = "new"
    /\ \A d \in Clients : d < c => conn[d] # "new"
    /\ connected_clients' = connected_clients \cup {c}
    /\ conn' = [conn EXCEPT ![c] = "open"]
    /\ join' = [join EXCEPT ![c] =
                  Subscriber([ver |-> writes, id |-> message.id], NoJoin)]
    /\ UNCHANGED <<latest_translation, processing_active, last_detection_time,
                   model, now, pcMain, pcS, pcB, previous_translation,
                   message, send, outcome, lastAttempt, lastSuccess, writes,
                   raised, observed, svcVars, decVars, pureVars>>

\* handle_client removing the websocket in the except clause and again in
\* the finally block: the second remove finds nothing
HandleClientRemoveTwice(c) ==
    /\ LoopFree
    /\ conn[c] = "open"
    /\ conn' = [conn EXCEPT ![c] = "closed"]
    /\ connected_clients' = connected_clients \ {c}
    /\ raised' = "KeyError"
    /\ join' = [join EXCEPT ![c] = NoJoin]
    /\ UNCHANGED <<latest_translation, processing_active, last_detection_time,
                   model, now, pcMain, pcS, pcB, previous_translation,
                   message, send, outcome, lastAttempt, lastSuccess, writes,
                   observed, svcVars, decVars, pureVars>>

\* streaming.py:44-48  the connection closes, wait_closed() returns (or
\* raises ConnectionClosed) and the finally block removes the websocket
HandleClientRemove(c) ==
    /\ LoopFree
    /\ conn[c] = "open"
    /\ conn' = [conn EXCEPT ![c] = "closed"]
    /\ IF c \in connected_clients
       THEN /\ connected_clients' = connected_clients \ {c}
            /\ UNCHANGED raised
       ELSE /\ raised' = "KeyError"
            /\ UNCHANGED connected_clients
    /\ join' = [join EXCEPT ![c] = NoJoin]
    /\ UNCHANGED <<latest_translation, processing_active, last_detection_time,
                   model, now, pcMain, pcS, pcB, previous_translation,
                   message, send, outcome, lastAttempt, lastSuccess, writes,
                   observed, svcVars, decVars, pureVars>>

\* streaming.py:56, 71  asyncio.sleep returns and the while condition is read
BroadcastWake ==
    /\ pcS = "serving"
    /\ pcB = "sleep"
    /\ pcB' = (IF processing_active THEN "if" ELSE "done")
    /\ UNCHANGED <<latest_translation, processing_active, connected_clients,
                   last_detection_time, model, now, pcMain, pcS,
                   previous_translation, message, send, conn, outcome,
                   lastAttempt, lastSuccess, writes, join, raised, observed,
                   svcVars, decVars, pureVars>>

\* streaming.py:57  the slot holds a text other than the one recorded
SlotChanged ==
    latest_translation # None /\ latest_translation # previous_translation

\* streaming.py:57  the comparison of the slot with previous_translation
BroadcastIf ==
    /\ pcS = "serving"
    /\ pcB = "if"
    /\ pcB' = (IF SlotChanged THEN "build" ELSE "sleep")
    /\ UNCHANGED <<latest_translation, processing_active, connected_clients,
                   last_detection_time, model, now, pcMain, pcS,
                   previous_translation, message, send, conn, outcome,
                   lastAttempt, lastSuccess, writes, join, raised, observed,
                   svcVars, decVars, pureVars>>

\* streaming.py:66  the clients the list comprehension creates a send for
SendTargets == connected_clients

\* streaming.py:58-66  with a client connected: build the message from the
\* slot as it is now and start one send per connected client
BroadcastBuild ==
    /\ pcS = "serving"
    /\ pcB = "build"
    /\ IF connected_clients # {}
       THEN /\ message' = [text |-> latest_translation,
                           id |-> Subscriber(message.id + 1, 0),
                           ver |-> writes]
            /\ send' = [c \in Clients |->
                          IF c \in SendTargets THEN "pending" ELSE "idle"]
            /\ pcB' = "gather"
       ELSE /\ pcB' = "sleep"
            /\ UNCHANGED <<message, send>>
    /\ UNCHANGED <<latest_translation, processing_active, connected_clients,
                   last_detection_time, model, now, pcMain, pcS,
                   previous_translation, conn, outcome, lastAttempt,
                   lastSuccess, writes, join, raised, observed, svcVars,
                   decVars, pureVars>>

\* the message sent to the subscriber set as it is while the gather runs,
\* not to the list made when the gather started
SendOkLiveSet(c) ==
    /\ pcS = "serving"
    /\ pcB = "gather"
    /\ send[c] \in {"pending", "idle"}
    /\ conn[c] = "open"
    /\ send' = [send EXCEPT ![c] = "ok"]
    /\ UNCHANGED <<latest_translation, processing_active, connected_clients,
                   last_detection_time, model, now, pcMain, pcS, pcB,
                   previous_translation, message, conn, outcome, lastAttempt,
                   lastSuccess, writes, join, raised, observed, svcVars,
                   decVars, pureVars>>

\* streaming.py:66  client.send(message) completes: c has the message
SendOk(c) ==
    /\ pcS = "serving"
    /\ pcB = "gather"
    /\ send[c] = "pending"
    /\ conn[c] = "open"
    /\ send' = [send EXCEPT ![c] = "ok"]
    /\ UNCHANGED <<latest_translation, processing_active, connected_clients,
                   last_detection_time, model, now, pcMain, pcS, pcB,
                   previous_translation, message, conn, outcome, lastAttempt,
                   lastSuccess, writes, join, raised, observed, svcVars,
                   decVars, pureVars>>

\* gather without return_exceptions=True: the first exception is raised
\* out of the await and ends the broadcaster task
SendFailRaises(c) ==
    /\ pcS = "serving"
    /\ pcB = "gather"
    /\ send[c] = "pending"
    /\ send' = [send EXCEPT ![c] = "failed"]
    /\ raised' = "ConnectionClosed"
    /\ pcB' = "done"
    /\ UNCHANGED <<latest_translation, processing_active, connected_clients,
                   last_detection_time, model, now, pcMain, pcS,
                   previous_translation, message, conn, outcome, lastAttempt,
                   lastSuccess, writes, join, observed, svcVars, decVars, pureVars>>

\* streaming.py:65-68  client.send(message) raises: with
\* return_exceptions=True the exception is one more result of the gather
SendFail(c) ==
    /\ pcS = "serving"
    /\ pcB = "gather"
    /\ send[c] = "pending"
    /\ send' = [send EXCEPT ![c] = "failed"]
    /\ UNCHANGED <<latest_translation, processing_active, connected_clients,
                   last_detection_time, model, now, pcMain, pcS, pcB,
                   previous_translation, message, conn, outcome, lastAttempt,
                   lastSuccess, writes, join, raised, observed, svcVars,
                   decVars, pureVars>>

\* streaming.py:65-71  every send has a result: gather returns, the slot is
\* read again into previous_translation, and the task sleeps
BroadcastUpdate ==
    /\ pcS = "serving"
    /\ pcB = "gather"
    /\ \A c \in Clients : send[c] # "pending"
    /\ previous_translation' = latest_translation
    /\ pcB' = "sleep"
    /\ UNCHANGED <<latest_translation, processing_active, connected_clients,
                   last_detection_time, model, now, pcMain, pcS, message,
                   send, conn, outcome, lastAttempt, lastSuccess, writes,
                   join, raised, observed, svcVars, decVars, pureVars>>

\* streaming.py:52-71  broadcast_translations, one step
broadcast_translations ==
    \/ BroadcastWake
    \/ BroadcastIf
    \/ BroadcastBuild
    \/ BroadcastUpdate

\* streaming.py:39-48  handle_client, one step of one connection
handle_client ==
    \E c \in Clients : HandleClientAdd(c) \/ HandleClientRemove(c)

\* streaming.py:65-68  one send of the gather ends
SendCompletes == \E c \in Clients : SendOk(c) \/ SendFail(c)

NextLive ==
    \/ MainFrame
    \/ MainQuit
    \/ ProcessExit
    \/ start_server
    \/ handle_client
    \/ broadcast_translations
    \/ SendCompletes

Next == NextLive

Spec == Init /\ [][Next]_vars

\* the same program, the detector's history recorded
SpecDetect == InitDetect /\ [][Next]_vars

\* the event loop runs every ready task, every send ends with a result, the
\* capture loop keeps taking frames and the interpreter exits once main()
\* has returned
FairLive ==
    /\ Spec
    /\ WF_vars(start_server)
    /\ WF_vars(BroadcastWake)
    /\ WF_vars(BroadcastIf)
    /\ WF_vars(BroadcastBuild)
    /\ WF_vars(BroadcastUpdate)
    /\ \A c \in Clients : WF_vars(SendOk(c) \/ SendFail(c))
    /\ WF_vars(MainFrame)
    /\ WF_vars(ProcessExit)

(***************************************************************************)
(*            Inference service: main.py and asl_classifier.py             *)
(***************************************************************************)

\* main.py:73  output_count=5
output_count == 5

\* asl_classifier.py:54-65  self.labels, as label.csv lists them: the
\* alphabet, then the phrases (main.py:193)
labels ==
    <<"A", "B", "C", "D", "E", "F", "G", "H", "I", "J", "K", "L", "M", "N",
      "O", "P", "Q", "R", "S", "T", "U", "V", "W", "X", "Y", "Z", "Noise",
      "Good", "Bad", "I AM FRIENDLY">>

\* asl_classifier.py:71  self.movement_dict
movement_dict == (0 :> -1) @@ (1 :> 9) @@ (2 :> 25)

\* asl_classifier.py:253-257  get_label
get_label(index) ==
    IF 0 <= index /\ index < Len(labels) THEN labels[index + 1] ELSE "Unknown"

\* the raw score vectors an interpreter can yield, classes 0..NumClasses-1
ScoreVectors == [0..(NumClasses - 1) -> 0..MaxScore]

Min(a, b) == IF a <= b THEN a ELSE b

RECURSIVE Orders(_)
\* the sequences that hold every element of the finite set S once
Orders(S) ==
    IF S = {} THEN {<<>>}
    ELSE UNION {{<<x>> \o p : p \in Orders(S \ {x})} : x \in S}

\* asl_classifier.py:245  np.argsort(result_probs): the orders of the
\* classes in which the scores ascend; numpy's default sort is not stable,
\* so classes of equal score come in any order
ArgSorts(result_probs) ==
    {p \in Orders(DOMAIN result_probs) :
        \A k \in 1..(Len(p) - 1) : result_probs[p[k]] <= result_probs[p[k + 1]]}

\* _max_n_results without the reversal: the n lowest scores, ascending
max_n_results_Ascending(result_probs, n, result_probs_sorted) ==
    LET C == Cardinality(DOMAIN result_probs)
        max_n_index == SubSeq(result_probs_sorted, 1, Min(n, C))
    IN  [indices |-> max_n_index,
         probs |-> [k \in DOMAIN max_n_index |-> result_probs[max_n_index[k]]]]

\* asl_classifier.py:234-251  _max_n_results, np.argsort returning
\* result_probs_sorted
max_n_results(result_probs, n, result_probs_sorted) ==
    LET C == Cardinality(DOMAIN result_probs)
        result_probs_descen_sorted ==
            [k \in 1..C |-> result_probs_sorted[C + 1 - k]]
        max_n_index == SubSeq(result_probs_descen_sorted, 1, Min(n, C))
    IN  [indices |-> max_n_index,
         probs |-> [k \in DOMAIN max_n_index |-> result_probs[max_n_index[k]]]]

\* asl_classifier.py:80-110  predict_static, the interpreter yielding result
predict_static(result, sorted) ==
    LET ranked == max_n_results(result, output_count, sorted)
    IN  [indices |-> ranked.indices, probs |-> ranked.probs,
         raw |-> ranked.indices]

\* predict_movement with the index itself for an index absent from
\* movement_dict
predict_movement_KeepsUnmapped(result, sorted) ==
    LET ranked == max_n_results(result, output_count, sorted)
    IN  [indices |-> [k \in DOMAIN ranked.indices |->
                        IF ranked.indices[k] \in DOMAIN movement_dict
                        THEN movement_dict[ranked.indices[k]]
                        ELSE ranked.indices[k]],
         probs |-> ranked.probs,
         raw |-> ranked.indices]

\* asl_classifier.py:112-149  predict_movement, the interpreter yielding
\* result: rank, then map the movement indices to label indices (raw is
\* the ranking before the mapping, for the record)
predict_movement(result, sorted) ==
    LET ranked == max_n_results(result, output_count, sorted)
    IN  [indices |-> [k \in DOMAIN ranked.indices |->
                        IF ranked.indices[k] \in DOMAIN movement_dict
                        THEN movement_dict[ranked.indices[k]]
                        ELSE -1],
         probs |-> ranked.probs,
         raw |-> ranked.indices]

\* main.py:41-84  lifespan up to the yield: whether the import raises, which
\* files exist, and whether constructing ASLClassifier raises
LifespanStartup ==
    /\ svc = "starting"
    /\ \E import_raises, static_exists, movement_exists, label_exists,
          ctor_raises \in BOOLEAN :
         /\ startup' = (IF import_raises THEN "error"
                        ELSE IF ~static_exists THEN "static_missing"
                        ELSE IF ~movement_exists THEN "movement_missing"
                        ELSE IF ~label_exists THEN "label_missing"
                        ELSE IF ctor_raises THEN "error"
                        ELSE "loaded")
         /\ model_instance' =
              (IF ~import_raises /\ static_exists /\ movement_exists
                  /\ label_exists /\ ~ctor_raises
               THEN "ASLClassifier" ELSE None)
    /\ svc' = "up"
    /\ UNCHANGED <<response, request, liveVars, decVars, pureVars>>

\* main.py:86-88  lifespan after the yield
LifespanShutdown ==
    /\ svc = "up"
    /\ svc' = "down"
    /\ model_instance' = None
    /\ UNCHANGED <<startup, response, request, liveVars, decVars, pureVars>>

Modes == {"static", "movement", "dynamic"}

Failure(code, why, was_loaded, was_called) ==
    [status |-> code, detail |-> why, text |-> "", confidence |-> 0,
     top_predictions |-> <<>>, loaded |-> was_loaded, called |-> was_called,
     indices |-> <<>>, probs |-> <<>>, raw |-> <<>>]

\* main.py:151-172  the response built from the classifier's answer
Success(ranked) ==
    LET kept == SelectSeq([k \in DOMAIN ranked.indices |->
                              [idx |-> ranked.indices[k],
                               prob |-> ranked.probs[k]]],
                          LAMBDA e : e.idx # -1)
    IN  [status |-> 200, detail |-> "",
         text |-> get_label(ranked.indices[1]),
         confidence |-> ranked.probs[1],
         top_predictions |-> [k \in DOMAIN kept |->
                                [label |-> get_label(kept[k].idx),
                                 confidence |-> kept[k].prob]],
         loaded |-> TRUE, called |-> TRUE,
         indices |-> ranked.indices, probs |-> ranked.probs,
         raw |-> ranked.raw]

\* predict without the test of model_instance: the call on None raises
\* inside the try and is answered as a failed prediction
PredictResponseNoCheck(mode, raises, result, sorted) ==
    IF mode \notin {"static", "movement"}
    THEN Failure(500, "Prediction failed: 400: Invalid mode",
                 model_instance # None, FALSE)
    ELSE IF model_instance = None
    THEN Failure(500, "Prediction failed: AttributeError", FALSE, FALSE)
    ELSE IF raises
    THEN Failure(500, "Prediction failed", TRUE, TRUE)
    ELSE Success(IF mode = "static" THEN predict_static(result, sorted)
                 ELSE predict_movement(result, sorted))

\* main.py:117-178  predict: what a request of this mode is answered with,
\* the classifier raising or its interpreter yielding result, which
\* np.argsort puts in the order sorted
PredictResponse(mode, raises, result, sorted) ==
    IF model_instance = None
    THEN Failure(503, "Model not loaded", FALSE, FALSE)
    ELSE IF mode \notin {"static", "movement"}
    THEN \* the HTTPException(400) is raised inside the try and caught by
         \* except Exception
         Failure(500, "Prediction failed: 400: Invalid mode", TRUE, FALSE)
    ELSE IF raises
    THEN Failure(500, "Prediction failed", TRUE, TRUE)
    ELSE Success(IF mode = "static" THEN predict_static(result, sorted)
                 ELSE predict_movement(result, sorted))

\* main.py:117-178  one predict request, the one before it answered
predict ==
    /\ svc = "up"
    /\ response = NoResponse
    /\ \E mode \in Modes, raises \in BOOLEAN, result \in ScoreVectors :
         \E sorted \in ArgSorts(result) :
            /\ request' = mode
            /\ response' = PredictResponse(mode, raises, result, sorted)
    /\ UNCHANGED <<model_instance, svc, startup, liveVars, decVars, pureVars>>

\* main.py:165-178  the response has gone to the client
ResponseSent ==
    /\ response # NoResponse
    /\ response' = NoResponse
    /\ request' = None
    /\ UNCHANGED <<model_instance, svc, startup, liveVars, decVars, pureVars>>

NextService ==
    \/ LifespanStartup
    \/ predict
    \/ ResponseSent
    \/ LifespanShutdown

SpecService == Init /\ [][NextService]_vars

(* --------------- the classifier's functions, called alone -------------- *)
\* a call of _max_n_results on any score vector, for any number of results
InitRanker ==
    /\ InitLive /\ InitService /\ InitDecode
    /\ rank_probs \in ScoreVectors
    /\ rank_n \in 1..(NumClasses + 1)
    /\ rank_out = NoRanking
    /\ m_sequence = <<>>
    /\ landmarks_seq = <<>>

\* asl_classifier.py:234-251  the call of _max_n_results returns
RankTopN ==
    /\ rank_out = NoRanking
    /\ \E sorted \in ArgSorts(rank_probs) :
         rank_out' = max_n_results(rank_probs, rank_n, sorted)
    /\ UNCHANGED <<rank_probs, rank_n, m_sequence, landmarks_seq, liveVars,
                   svcVars, decVars>>

NextRanker == RankTopN

SpecRanker == InitRanker /\ [][NextRanker]_vars

(***************************************************************************)
(*                  Sequence decoder: tflite_model.py                      *)
(***************************************************************************)

\* character_to_prediction_index.json: the base characters in code order
\* (code = place - 1)
BaseMaps == {<<"a", "b">>, <<"a">>, <<"E", "a">>, <<"P">>, <<"a", "S">>}

\* tflite_model.py:46-48  char_to_num[key] = value
Assign(f, key, value) ==
    [x \in DOMAIN f \cup {key} |-> IF x = key THEN value ELSE f[x]]

\* tflite_model.py:40-50  the character map with the special tokens added
ExtendedVocabulary(base) ==
    LET loaded == [ch \in {base[i] : i \in 1..Len(base)} |->
                     (CHOOSE i \in 1..Len(base) : base[i] = ch) - 1]
        n == Cardinality(DOMAIN loaded)
    IN  Assign(Assign(Assign(loaded, "P", n), "S", n + 1), "E", n + 2)

\* tflite_model.py:51  {v: k for k, v in char_to_num.items()}
InverseVocabulary(f) ==
    [v \in {f[k] : k \in DOMAIN f} |-> CHOOSE k \in DOMAIN f : f[k] = v]

\* tflite_model.py:13-57  TFLiteModel.__init__
TFLiteModelInit ==
    /\ pcD = "new"
    /\ \E base \in BaseMaps :
         /\ char_map' = base
         /\ char_to_num' = ExtendedVocabulary(base)
         /\ num_to_char' = InverseVocabulary(ExtendedVocabulary(base))
    /\ pcD' = "idle"
    /\ UNCHANGED <<output, token_ids, step, chars, text, confidences,
                   confidence, liveVars, svcVars, pureVars>>

\* width of a score vector: the base characters and the three special tokens
VocabSize == char_to_num["E"] + 1

\* the score vectors of one step: 0/1 scores, at most two classes scoring 1
Rows ==
    {r \in [0..(VocabSize - 1) -> 0..1] :
        Cardinality({i \in DOMAIN r : r[i] = 1}) <= 2}

\* tflite_model.py:155  np.argmax over one score vector: the first index
\* of the largest score
ArgMax(r) ==
    CHOOSE i \in DOMAIN r :
        \A j \in DOMAIN r : r[j] < r[i] \/ (r[j] = r[i] /\ i <= j)

\* fractions, as pairs of integers; den = 0 is not-a-number
Frac(n, d) == [num |-> n, den |-> d]
FracAdd(p, q) == Frac(p.num * q.den + q.num * p.den, p.den * q.den)
FracEq(p, q) == p.num * q.den = q.num * p.den /\ (p.den = 0 <=> q.den = 0)

RECURSIVE SumOver(_, _)
\* the sum of f[i], an integer, over the finite set S
SumOver(f, S) ==
    IF S = {} THEN 0
    ELSE LET i == CHOOSE x \in S : TRUE IN f[i] + SumOver(f, S \ {i})

\* tflite_model.py:159-161  softmax of one score vector and its largest
\* probability, exp(x - max) / sum of exp(x - max); the exponential is taken
\* to base 3 for e, which keeps the fraction in integers
MaxProb(r) ==
    LET exp_output == [j \in DOMAIN r |-> 3 ^ r[j]]
    IN  Frac(exp_output[ArgMax(r)], SumOver(exp_output, DOMAIN r))

RECURSIVE FracSum(_)
FracSum(fs) ==
    IF fs = <<>> THEN Frac(0, 1) ELSE FracAdd(Head(fs), FracSum(Tail(fs)))

\* tflite_model.py:175  np.mean: the sum over the count, not-a-number for an
\* empty sequence
Mean(fs) ==
    Frac(FracSum(fs).num, FracSum(fs).den * Len(fs))

\* tflite_model.py:144-164  decode_output up to the for loop
DecodeStart ==
    /\ pcD = "idle"
    /\ \E len \in 0..MaxSteps :
         \E out \in [1..len -> Rows] :
            /\ output' = out
            /\ token_ids' = [i \in 1..len |-> ArgMax(out[i])]
            /\ confidences' = [i \in 1..len |-> MaxProb(out[i])]
    /\ chars' = <<>>
    /\ step' = 1
    /\ pcD' = "loop"
    /\ UNCHANGED <<char_map, char_to_num, num_to_char, text, confidence, liveVars,
                   svcVars, pureVars>>

\* the for loop with continue where the code has break: the end token is
\* skipped and decoding goes on
DecodeForContinues ==
    /\ pcD = "loop"
    /\ IF step > Len(token_ids)
       THEN /\ pcD' = "return"
            /\ UNCHANGED <<step, chars>>
       ELSE LET token_id == token_ids[step]
            IN  /\ pcD' = "loop"
                /\ step' = step + 1
                /\ IF token_id \in DOMAIN num_to_char
                      /\ num_to_char[token_id] \notin {"P", "S", "E"}
                   THEN chars' = Append(chars, num_to_char[token_id])
                   ELSE UNCHANGED chars
    /\ UNCHANGED <<char_map, char_to_num, num_to_char, output, token_ids, text,
                   confidences, confidence, liveVars, svcVars, pureVars>>

\* tflite_model.py:165-172  one pass of the for loop over token_ids, or its
\* end
DecodeFor ==
    /\ pcD = "loop"
    /\ IF step > Len(token_ids)
       THEN /\ pcD' = "return"
            /\ UNCHANGED <<step, chars>>
       ELSE LET token_id == token_ids[step]
            IN  IF token_id \in DOMAIN num_to_char
                THEN LET char == num_to_char[token_id]
                     IN  IF char = "E"
                         THEN /\ pcD' = "return"
                              /\ UNCHANGED <<step, chars>>
                         ELSE /\ pcD' = "loop"
                              /\ step' = step + 1
                              /\ IF char \notin {"P", "S"}
                                 THEN chars' = Append(chars, char)
                                 ELSE UNCHANGED chars
                ELSE /\ pcD' = "loop"
                     /\ step' = step + 1
                     /\ UNCHANGED chars
    /\ UNCHANGED <<char_map, char_to_num, num_to_char, output, token_ids, text,
                   confidences, confidence, liveVars, svcVars, pureVars>>

\* tflite_model.py:174  "".join(chars)
RECURSIVE Join(_)
Join(cs) == IF cs = <<>> THEN "" ELSE Head(cs) \o Join(Tail(cs))

\* tflite_model.py:174-177  the text is joined and returned
DecodeReturn ==
    /\ pcD = "return"
    /\ text' = Join(chars)
    /\ confidence' = Mean(confidences)
    /\ pcD' = "done"
    /\ UNCHANGED <<char_map, char_to_num, num_to_char, output, token_ids, step, chars,
                   confidences, liveVars, svcVars, pureVars>>

NextDecode ==
    \/ TFLiteModelInit
    \/ DecodeStart
    \/ DecodeFor
    \/ DecodeReturn

SpecDecode == Init /\ [][NextDecode]_vars

(* ------------------- the movement sequence encoder --------------------- *)
Abs(x) == IF x < 0 THEN 0 - x ELSE x

\* a landmark is a pair <<x, y>>, a frame a sequence of NumLandmarks of them
Points == (0..MaxCoord) \X (0..MaxCoord)
Frames == [1..NumLandmarks -> Points]

\* the frame with every landmark moved by d
Moved(frame, d) ==
    [i \in DOMAIN frame |-> <<frame[i][1] + d[1], frame[i][2] + d[2]>>]

\* the movement sequences given: any first frame, the later frames being
\* the first one moved, each by its own offset
Sequences ==
    {[f \in 1..NumFrames |-> IF f = 1 THEN first ELSE Moved(first, offs[f])] :
        first \in Frames, offs \in [2..NumFrames -> Points]}

\* asl_classifier.py:173, 210  a frame as a flat list x0, y0, x1, y1, ...
\* (place j here is index j - 1 there)
Flat(frame) ==
    [j \in 1..(2 * Len(frame)) |-> frame[(j + 1) \div 2][2 - (j % 2)]]

\* asl_classifier.py:151-181  _preprocess_landmark, each value a fraction
preprocess_landmark(landmark_list) ==
    LET base == landmark_list[1]
        temp_landmark_list ==
            Flat([i \in DOMAIN landmark_list |->
                    <<landmark_list[i][1] - base[1],
                      landmark_list[i][2] - base[2]>>])
        max_value ==
            CHOOSE m \in {Abs(temp_landmark_list[j]) :
                              j \in DOMAIN temp_landmark_list} :
                \A j \in DOMAIN temp_landmark_list :
                    Abs(temp_landmark_list[j]) <= m
    IN  [j \in DOMAIN temp_landmark_list |->
            IF max_value # 0 THEN Frac(temp_landmark_list[j], max_value)
            ELSE Frac(temp_landmark_list[j], 1)]

\* asl_classifier.py:213-223  the frames relative to the first frame, x over
\* the image width and y over the image height
RelativeFrames(sequence, image_width, image_height) ==
    LET first_seq_landmarks_flatten == Flat(sequence[1])
    IN  [seq \in DOMAIN sequence |->
            [j \in DOMAIN first_seq_landmarks_flatten |->
                Frac(Flat(sequence[seq])[j] - first_seq_landmarks_flatten[j],
                     IF j % 2 = 1 THEN image_width ELSE image_height)]]

RECURSIVE Chain(_)
\* asl_classifier.py:230  itertools.chain.from_iterable
Chain(lists) ==
    IF lists = <<>> THEN <<>> ELSE Head(lists) \o Chain(Tail(lists))

\* _preprocess_hand_movement replacing the first frame when either
\* coordinate of its first landmark is not 0
preprocess_hand_movement_EitherNonzero(sequence, image_width, image_height) ==
    LET first_seq_landmarks == sequence[1]
        relative == RelativeFrames(sequence, image_width, image_height)
    IN  Chain([seq \in DOMAIN sequence |->
                 IF seq = 1 /\ (first_seq_landmarks[1][1] # 0
                                \/ first_seq_landmarks[1][2] # 0)
                 THEN preprocess_landmark(first_seq_landmarks)
                 ELSE relative[seq]])

\* asl_classifier.py:183-232  _preprocess_hand_movement
preprocess_hand_movement(sequence, image_width, image_height) ==
    LET first_seq_landmarks == sequence[1]
        relative == RelativeFrames(sequence, image_width, image_height)
    IN  Chain([seq \in DOMAIN sequence |->
                 IF seq = 1 /\ first_seq_landmarks[1][1] # 0
                            /\ first_seq_landmarks[1][2] # 0
                 THEN preprocess_landmark(first_seq_landmarks)
                 ELSE relative[seq]])

\* a call of _preprocess_hand_movement on any of the sequences
InitEncoder ==
    /\ InitLive /\ InitService /\ InitDecode
    /\ rank_probs = <<>>
    /\ rank_n = 0
    /\ rank_out = NoRanking
    /\ m_sequence \in Sequences
    /\ landmarks_seq = <<>>

\* asl_classifier.py:183-232  the call of _preprocess_hand_movement returns
EncodeMovement ==
    /\ landmarks_seq = <<>>
    /\ landmarks_seq' =
          preprocess_hand_movement(m_sequence, ImageWidth, ImageHeight)
    /\ UNCHANGED <<m_sequence, rank_probs, rank_n, rank_out, liveVars, svcVars,
                   decVars>>

NextEncoder == EncodeMovement

SpecEncoder == InitEncoder /\ [][NextEncoder]_vars

(***************************************************************************)
(*                              The claims                                 *)
(***************************************************************************)

\* the classifier was called on the frame with this outcome
Invoked(o) == o \in {"error", "none", "text"}

\* C1: if from some point on the slot holds text t, a subscriber is connected
\* and the loop is live, then from some point on the message broadcast last
\* carries t (the final text is eventually broadcast).
C1_FinalTextBroadcast ==
    \A t \in Texts :
        <>[](latest_translation = t /\ connected_clients # {}
               /\ processing_active)
            => <>[](message.text = t)

\* C2: no two consecutive broadcast messages carry the same text: a message
\* is built only with a text other than that of the message before it.
C2_NoRepeatedText ==
    [][message' # message => message'.text # message.text]_vars

C4_GateFromLastSuccess ==
    [][(MainFrame /\ model # None) =>
          (Invoked(outcome') <=> now' - lastSuccess >= detection_cooldown)]_vars

\* C4 (amended): on every frame the classifier is invoked exactly when a
\* model is loaded and at least the cooldown has elapsed since the last
\* invocation of the classifier, whatever that invocation gave.
C4_GateFromLastAttempt ==
    [][MainFrame =>
          (Invoked(outcome') <=>
              (model # None /\ now' - lastAttempt >= detection_cooldown))]_vars

\* a frame was skipped within the cooldown of an invocation that gave no
\* result, a full cooldown after the last detection that gave one
C4_Witness ==
    /\ outcome = "skip"
    /\ lastAttempt > lastSuccess
    /\ lastSuccess > 0
    /\ now - lastSuccess >= detection_cooldown

\* C5: a send that fails leaves every other send of the gather as it is,
\* raises nothing, leaves the broadcaster waiting for the remaining sends
\* and leaves the producer alone.
C5_FailedSendIsolated ==
    [][\A c \in Clients :
          (send'[c] = "failed" /\ send[c] # "failed") =>
              /\ \A d \in Clients \ {c} : send'[d] = send[d]
              /\ raised' = None
              /\ pcB' = "gather"
              /\ pcMain' = pcMain
              /\ processing_active' = processing_active
              /\ latest_translation' = latest_translation]_vars

\* in a second or later broadcast one send has failed and another subscriber
\* has the message
C5_Witness ==
    \E c, d \in Clients :
        /\ send[c] = "failed"
        /\ send[d] = "ok"
        /\ conn[d] = "open"
        /\ message.id >= 2

\* C6: registration and deregistration never raise; the subscriber set
\* changes only while the broadcaster is suspended at an await, never between
\* the test of the set and its iteration; a send exists only for a client
\* that was in the set when the gather started, so a subscriber added later
\* is not sent that message.
C6_RegistrationSafe ==
    [][/\ raised' = None
       /\ connected_clients' # connected_clients =>
              pcB \in {"sleep", "gather", "done"}
       /\ \A c \in Clients :
              /\ (send'[c] = "pending" /\ send[c] # "pending") =>
                     (pcB = "build" /\ c \in connected_clients)
              /\ (send'[c] = "ok" /\ send[c] # "ok") =>
                     send[c] = "pending"]_vars

\* during one gather a subscriber with a send in flight has deregistered and
\* another has registered, which has no send of that message
C6_Witness ==
    \E c, d \in Clients :
        /\ pcB = "gather"
        /\ conn[d] = "closed"
        /\ send[d] = "pending"
        /\ conn[c] = "open"
        /\ send[c] = "idle"
        /\ join[c].id = message.id
        /\ message.id >= 1

\* C7: when the process has shut down, the distribution loop has terminated
\* cleanly: the broadcaster has stopped, the subscriber set is drained and
\* the server task has completed.
C7_CleanTermination ==
    (pcMain = "exited" /\ pcS # "init") =>
        /\ pcB = "done"
        /\ connected_clients = {}
        /\ \A c \in Clients : send[c] # "pending"
        /\ pcS = "closed"

\* C8: a frame on which the classifier raises leaves the slot, the capture
\* loop and the broadcaster as they were and starts a cooldown window at its
\* own time; on the frame after it the classifier is invoked exactly when
\* that window has passed.
C8_DetectorErrorContained ==
    [][/\ (MainFrame /\ outcome' = "error") =>
              /\ latest_translation' = latest_translation
              /\ processing_active'
              /\ pcMain' = "loop"
              /\ pcB' = pcB
              /\ last_detection_time' = now'
       /\ (MainFrame /\ outcome = "error") =>
              (Invoked(outcome') <=>
                  now' - last_detection_time >= detection_cooldown)]_vars

\* the classifier raised on a frame taken while the slot held an earlier
\* detection and the broadcaster was running
C8_Witness ==
    /\ outcome = "error"
    /\ lastSuccess > 0
    /\ lastAttempt > lastSuccess
    /\ latest_translation # None
    /\ processing_active
    /\ pcB \in {"sleep", "if", "build", "gather"}

\* C9: whatever startup found, the service is up afterwards, and with
\* anything missing or raising model_instance is None; a predict request
\* handled while model_instance is None is answered 503 with no classifier
\* operation called, and only a loaded model answers a request with a
\* prediction.
C9_UnavailableWhenNotLoaded ==
    /\ startup # "nothing" => svc \in {"up", "down"}
    /\ (svc = "up" /\ startup # "loaded") => model_instance = None
    /\ (svc = "up" /\ startup = "loaded") => model_instance # None
    /\ (response.status # 0 /\ ~response.loaded) =>
           (response.status = 503 /\ ~response.called)
    /\ (response.status # 0 /\ (response.status = 200 \/ response.called)) =>
           response.loaded

\* the constructor raised at startup and a predict request was answered 503
C9_Witness ==
    /\ svc = "up"
    /\ startup = "error"
    /\ response.status = 503

\* token t is the arg-max of score vector r (the first index of the maximum)
IsArgMax(r, t) ==
    /\ t \in DOMAIN r
    /\ \A j \in DOMAIN r : r[j] <= r[t]
    /\ \A j \in DOMAIN r : r[j] = r[t] => t <= j

PAD == char_to_num["P"]
START == char_to_num["S"]
END == char_to_num["E"]

\* the steps before the first step whose token is END
BeforeEnd(tokens) ==
    LET ends == {i \in 1..Len(tokens) : tokens[i] = END}
    IN  IF ends = {} THEN tokens
        ELSE SubSeq(tokens, 1, (CHOOSE i \in ends : \A j \in ends : i <= j) - 1)

\* the characters of the tokens, PAD and START omitted
RECURSIVE CharactersOf(_)
CharactersOf(tokens) ==
    IF tokens = <<>> THEN ""
    ELSE IF Head(tokens) \in {PAD, START}
            \/ Head(tokens) \notin DOMAIN num_to_char
    THEN CharactersOf(Tail(tokens))
    ELSE num_to_char[Head(tokens)] \o CharactersOf(Tail(tokens))

\* C10: the decoded text is the characters of the arg-max tokens, in step
\* order, of the steps before the first END token, PAD and START omitted;
\* with no END every step is decoded.
C10_DecodedText ==
    pcD = "done" =>
        /\ Len(token_ids) = Len(output)
        /\ \A i \in 1..Len(output) : IsArgMax(output[i], token_ids[i])
        /\ text = CharactersOf(BeforeEnd(token_ids))

\* a decoded output with a character, then END, then a step whose token is
\* a character again
C10_Witness ==
    /\ pcD = "done"
    /\ text # ""
    /\ \E i \in 1..Len(token_ids) :
         /\ token_ids[i] = END
         /\ i < Len(token_ids)
         /\ token_ids[Len(token_ids)] \notin {PAD, START, END}
         /\ token_ids[Len(token_ids)] \in DOMAIN num_to_char

\* the steps of seq before the first step whose token is END
StepsBeforeEnd(seq) ==
    LET ends == {i \in 1..Len(token_ids) : token_ids[i] = END}
    IN  IF ends = {} THEN seq
        ELSE SubSeq(seq, 1, (CHOOSE i \in ends : \A j \in ends : i <= j) - 1)

\* C11: the confidence returned is the arithmetic mean of the confidences of
\* exactly the steps processed before decoding stopped (PAD and START steps
\* included); no step from the END token on is part of the mean.
C11_MeanOfProcessedSteps ==
    (pcD = "done" /\ StepsBeforeEnd(confidences) # <<>>) =>
        FracEq(confidence, Mean(StepsBeforeEnd(confidences)))

\* C12: for the base map loaded, of size n with codes 0..n-1, the vocabulary
\* has PAD = n, START = n + 1 and END = n + 2, every base character keeps its
\* code, and the inverse is defined on every code of 0..n+2 and inverts the
\* vocabulary; also for a base map holding "P", "S" or "E".
C12_VocabularyTotal ==
    pcD # "new" =>
        LET n == Len(char_map)
        IN  /\ char_to_num["P"] = n
            /\ char_to_num["S"] = n + 1
            /\ char_to_num["E"] = n + 2
            /\ \A i \in 1..n : char_to_num[char_map[i]] = i - 1
            /\ DOMAIN num_to_char = 0..(n + 2)
            /\ \A code \in DOMAIN num_to_char :
                   char_to_num[num_to_char[code]] = code

\* the classes of the largest score
Maxima(probs) ==
    {i \in DOMAIN probs : \A j \in DOMAIN probs : probs[j] <= probs[i]}

\* what C13 states of a ranking but for its order: min(N, C) entries, each
\* index paired with its own score, and with a single maximum the first
\* index is the arg-max
RankedWell ==
    /\ Len(rank_out.indices) = Min(rank_n, Cardinality(DOMAIN rank_probs))
    /\ Len(rank_out.probs) = Len(rank_out.indices)
    /\ \A k \in DOMAIN rank_out.indices :
           /\ rank_out.indices[k] \in DOMAIN rank_probs
           /\ rank_out.probs[k] = rank_probs[rank_out.indices[k]]
    /\ Cardinality(Maxima(rank_probs)) = 1 =>
           rank_out.indices[1] \in Maxima(rank_probs)

\* C13 (as claimed): the ranking has min(N, C) entries, sorted strictly
\* descending by score, each index with its score, the arg-max first when
\* the maximum is single.
C13_StrictlyDescending ==
    rank_out # NoRanking =>
        /\ RankedWell
        /\ \A k, l \in DOMAIN rank_out.probs :
               k < l => rank_out.probs[k] > rank_out.probs[l]

\* C13 (amended): the ranking has min(N, C) entries of distinct classes,
\* sorted descending by score with equal scores next to each other, each
\* index with its score; no class left out scores more than one returned;
\* the arg-max is first when the maximum is single.
C13_Descending ==
    rank_out # NoRanking =>
        /\ RankedWell
        /\ \A k, l \in DOMAIN rank_out.probs :
               k < l => /\ rank_out.probs[k] >= rank_out.probs[l]
                        /\ rank_out.indices[k] # rank_out.indices[l]
        /\ \A j \in DOMAIN rank_probs :
               (\A k \in DOMAIN rank_out.indices : rank_out.indices[k] # j) =>
                   \A k \in DOMAIN rank_out.probs : rank_probs[j] <= rank_out.probs[k]

\* fewer results than classes were asked of a vector with a single maximum
\* and two classes of equal score, both returned
C13_Witness ==
    /\ rank_out # NoRanking
    /\ rank_n < Cardinality(DOMAIN rank_probs)
    /\ Cardinality(Maxima(rank_probs)) = 1
    /\ Len(rank_out.probs) >= 3
    /\ rank_out.probs[1] > rank_out.probs[2]
    /\ rank_out.probs[2] = rank_out.probs[3]

\* asl_classifier.py:71 as the claims state it: raw 0, 1, 2 give -1, 9, 25
\* and any other raw index gives -1
MapTarget(raw) == IF raw = 1 THEN 9 ELSE IF raw = 2 THEN 25 ELSE -1

\* the rank slots of the answer whose index is not the sentinel -1
ValidSlots == {k \in DOMAIN response.indices : response.indices[k] # -1}

\* C14: in a movement answer every raw index is replaced by its map target,
\* -1 for an index absent from the map; the remapped sequence keeps length
\* and rank slots; top_predictions holds exactly the entries whose remapped
\* index is not -1, in rank order.
C14_MovementRemapFiltered ==
    (response.status = 200 /\ request = "movement") =>
        /\ Len(response.indices) = Len(response.raw)
        /\ Len(response.probs) = Len(response.raw)
        /\ \A k \in DOMAIN response.raw :
               response.indices[k] = MapTarget(response.raw[k])
        /\ Len(response.top_predictions) = Cardinality(ValidSlots)
        /\ \A k \in ValidSlots :
               LET j == Cardinality({l \in ValidSlots : l <= k})
               IN  response.top_predictions[j] =
                       [label |-> get_label(response.indices[k]),
                        confidence |-> response.probs[k]]

\* a movement answer whose ranking holds an index absent from the map and
\* index 0, the first slot being dropped and a later one kept
C14_Witness ==
    /\ response.status = 200
    /\ request = "movement"
    /\ \E k \in DOMAIN response.raw : response.raw[k] \notin {0, 1, 2}
    /\ \E k \in DOMAIN response.raw : response.raw[k] = 0
    /\ response.indices[1] = -1
    /\ Len(response.top_predictions) = 2

\* C16: with the model loaded, a request of a mode other than "static" and
\* "movement" is answered 400 with no classifier call, and a request on
\* which the classifier raises is answered 500.
C16_ErrorCategoryKept ==
    (response.status # 0 /\ response.loaded) =>
        /\ request \notin {"static", "movement"} =>
               (response.status = 400 /\ ~response.called)
        /\ (request \in {"static", "movement"} /\ response.status # 200) =>
               (response.status = 500 /\ response.called)

\* C18: in a successful answer with a non-empty top_predictions, text and
\* confidence are the label and the confidence of its first entry; the text
\* is never taken from a rank slot whose index is -1.
C18_TextIsFirstPrediction ==
    response.status = 200 =>
        /\ response.top_predictions # <<>> =>
               /\ response.text = response.top_predictions[1].label
               /\ response.confidence = response.top_predictions[1].confidence
        /\ response.indices[1] # -1

\* the slice of frame f (from 1) in the list returned
Slice(f) ==
    SubSeq(landmarks_seq, (f - 1) * 2 * NumLandmarks + 1,
           f * 2 * NumLandmarks)

\* two lists of fractions hold the same values
SameValues(a, b) ==
    /\ Len(a) = Len(b)
    /\ \A j \in DOMAIN a : FracEq(a[j], b[j])

\* the relative encoding of frame f: (coordinate - first frame's coordinate)
\* over the image width at x places, over the image height at y places
RelativeSlice(f) ==
    [j \in 1..(2 * NumLandmarks) |->
        Frac(m_sequence[f][(j + 1) \div 2][2 - (j % 2)]
               - m_sequence[1][(j + 1) \div 2][2 - (j % 2)],
             IF j % 2 = 1 THEN ImageWidth ELSE ImageHeight)]

\* every frame after the first has its relative encoding
LaterFramesRelative ==
    /\ Len(landmarks_seq) = NumFrames * 2 * NumLandmarks
    /\ \A f \in 2..NumFrames : SameValues(Slice(f), RelativeSlice(f))

\* C15 (as claimed): the first frame's slice is the normalizer's output on
\* the first frame exactly when its raw first landmark is not (0,0), else
\* the all-zero relative encoding; every other slice is the relative
\* encoding.
C15_FrameZeroUnlessOrigin ==
    landmarks_seq # <<>> =>
        /\ LaterFramesRelative
        /\ IF m_sequence[1][1] # <<0, 0>>
           THEN SameValues(Slice(1), preprocess_landmark(m_sequence[1]))
           ELSE SameValues(Slice(1), RelativeSlice(1))

\* C15 (amended): the first frame's slice is the normalizer's output on the
\* first frame exactly when both coordinates of its raw first landmark are
\* nonzero, else the all-zero relative encoding; every other slice is the
\* relative encoding.
C15_FrameZeroWhenBothNonzero ==
    landmarks_seq # <<>> =>
        /\ LaterFramesRelative
        /\ IF m_sequence[1][1][1] # 0 /\ m_sequence[1][1][2] # 0
           THEN SameValues(Slice(1), preprocess_landmark(m_sequence[1]))
           ELSE SameValues(Slice(1), RelativeSlice(1))

\* the first landmark of the first frame has one coordinate 0 and the other
\* not, the normalizer's output on the frame is not all zero, and the
\* first slice returned is
C15_Witness ==
    /\ landmarks_seq # <<>>
    /\ m_sequence[1][1][1] # 0
    /\ m_sequence[1][1][2] = 0
    /\ \E j \in 1..(2 * NumLandmarks) :
           preprocess_landmark(m_sequence[1])[j].num # 0
    /\ \A j \in 1..(2 * NumLandmarks) : Slice(1)[j].num = 0
    /\ \E j \in DOMAIN landmarks_seq : landmarks_seq[j].num # 0

\* C17: whenever the broadcaster is not in the middle of a broadcast, the
\* text it has recorded as broadcast last is the text of the message it
\* sent last; and a message is built only with a text other than the one
\* recorded as broadcast last, the difference that triggered it.
C17_BookkeepingMatchesSent ==
    [][/\ pcB' \in {"sleep", "if", "build"} =>
              previous_translation' = message'.text
       /\ message' # message => message'.text # previous_translation]_vars

====
